---- MODULE Spec2Model ----
(***************************************************************************)
(* Model of the LPCalculator component (src/src/components/LPCalculator.tsx) *)
(*                                                                         *)
(* State: the three useState cells of the component (inputs, results,      *)
(* error).  Operations: the seven onChange handlers and handleCalculate.   *)
(*                                                                         *)
(* Texts are sequences of one-character strings, so that parseFloat and    *)
(* String.prototype.trim are computed character by character.              *)
(*                                                                         *)
(* Numbers: a JavaScript number is modelled as a record                    *)
(*     [k |-> "fin", n, d, e]   the exact value (n / d) * 10^e             *)
(*     [k |-> "inf", n |-> 1 or -1]        +Infinity or -Infinity          *)
(*     [k |-> "nan"]                                                       *)
(* Finite values are exact rationals: the rounding of IEEE-754 doubles is  *)
(* not modelled, and +0 and -0 are one value.  Statements about computed   *)
(* values are therefore made only where the double arithmetic is exact     *)
(* (IsExact below) or where rounding cannot change the answer (a sign).    *)
(***************************************************************************)
EXTENDS Integers, Sequences, FiniteSets, TLC

VARIABLES inputs, results, error, op, edits, snapshot, shownBefore

vars == <<inputs, results, error, op, edits, snapshot, shownBefore>>

\* Bound of the model: the number of field edits in one behaviour.
MaxEdits == 2

\* The value of `results` before any successful calculation (useState(null)).
NULL == [absent |-> TRUE]

-----------------------------------------------------------------------------
(* Arithmetic on JavaScript numbers                                        *)

Abs(i) == IF i < 0 THEN 0 - i ELSE i

Sign(i) == IF i < 0 THEN 0 - 1 ELSE IF i = 0 THEN 0 ELSE 1

RECURSIVE Gcd(_, _)
Gcd(a, b) == IF b = 0 THEN a ELSE Gcd(b, a % b)

RECURSIVE Pow10(_)
Pow10(k) == IF k <= 0 THEN 1 ELSE 10 * Pow10(k - 1)

NaN == [k |-> "nan", n |-> 0, d |-> 1, e |-> 0]

Inf(s) == [k |-> "inf", n |-> s, d |-> 1, e |-> 0]

\* Canonical form of n/d * 10^e (d > 0): n/d in lowest terms, d coprime to
\* 10, n not a multiple of 10; zero is 0/1 * 10^0.
RECURSIVE Norm(_, _, _)
Norm(n, d, e) ==
    IF n = 0 THEN [k |-> "fin", n |-> 0, d |-> 1, e |-> 0]
    ELSE LET g == Gcd(Abs(n), d) IN
         IF g > 1 THEN Norm(n \div g, d \div g, e)
         ELSE IF Abs(n) % 10 = 0 THEN Norm(Sign(n) * (Abs(n) \div 10), d, e + 1)
         ELSE IF d % 10 = 0 THEN Norm(n, d \div 10, e - 1)
         ELSE IF d % 2 = 0 THEN Norm(n * 5, d \div 2, e - 1)
         ELSE IF d % 5 = 0 THEN Norm(n * 2, d \div 5, e - 1)
         ELSE [k |-> "fin", n |-> n, d |-> d, e |-> e]

Num(i) == Norm(i, 1, 0)

IsNaN(x) == x.k = "nan"

IsZero(x) == x.k = "fin" /\ x.n = 0

\* The sign of x: -1, 0 or 1 (0 for NaN too).
Sgn(x) == Sign(x.n)

\* x <= 0 as JavaScript compares: false when x is NaN.
LeqZero(x) == x.k # "nan" /\ x.n <= 0

Neg(x) == [x EXCEPT !.n = 0 - x.n]

\* x * y
Mul(x, y) ==
    IF IsNaN(x) \/ IsNaN(y) THEN NaN
    ELSE IF x.k = "inf" \/ y.k = "inf"
         THEN IF IsZero(x) \/ IsZero(y) THEN NaN ELSE Inf(Sgn(x) * Sgn(y))
    ELSE IF x.n = 0 \/ y.n = 0 THEN Num(0)
    ELSE LET g1 == Gcd(Abs(x.n), y.d)
             g2 == Gcd(Abs(y.n), x.d)
         IN  Norm((x.n \div g1) * (y.n \div g2),
                  (x.d \div g2) * (y.d \div g1), x.e + y.e)

\* x / y
Div(x, y) ==
    IF IsNaN(x) \/ IsNaN(y) THEN NaN
    ELSE IF x.k = "inf"
         THEN IF y.k = "inf" THEN NaN
              ELSE Inf(IF Sgn(y) < 0 THEN 0 - Sgn(x) ELSE Sgn(x))
    ELSE IF y.k = "inf" THEN Num(0)
    ELSE IF y.n = 0 THEN IF x.n = 0 THEN NaN ELSE Inf(Sgn(x))
    ELSE Mul(x, [k |-> "fin", n |-> Sign(y.n) * y.d, d |-> Abs(y.n), e |-> 0 - y.e])

\* x + y
Add(x, y) ==
    IF IsNaN(x) \/ IsNaN(y) THEN NaN
    ELSE IF x.k = "inf"
         THEN IF y.k = "inf" /\ y.n # x.n THEN NaN ELSE x
    ELSE IF y.k = "inf" THEN y
    ELSE LET m == IF x.e < y.e THEN x.e ELSE y.e
         IN  Norm(x.n * Pow10(x.e - m) * y.d + y.n * Pow10(y.e - m) * x.d,
                  x.d * y.d, m)

\* x - y
Sub(x, y) == Add(x, Neg(y))

-----------------------------------------------------------------------------
(* Texts, and the two built-in conversions the handler applies to them     *)

\* StrWhiteSpaceChar, as far as the texts of the model go.
WhiteSpace == {" ", "\t", "\n"}

Digits == {"0", "1", "2", "3", "4", "5", "6", "7", "8", "9"}

DigitVal(c) ==
    CASE c = "0" -> 0 [] c = "1" -> 1 [] c = "2" -> 2 [] c = "3" -> 3
      [] c = "4" -> 4 [] c = "5" -> 5 [] c = "6" -> 6 [] c = "7" -> 7
      [] c = "8" -> 8 [] c = "9" -> 9

\* s without its leading white space.
RECURSIVE TrimStart(_)
TrimStart(s) ==
    IF s # <<>> /\ Head(s) \in WhiteSpace THEN TrimStart(Tail(s)) ELSE s

\* s without its trailing white space.
RECURSIVE TrimEnd(_)
TrimEnd(s) ==
    IF s # <<>> /\ s[Len(s)] \in WhiteSpace
    THEN TrimEnd(SubSeq(s, 1, Len(s) - 1)) ELSE s

\* Mutant of trim: the text is tested as typed.
trim_Identity(s) == s

\* String.prototype.trim
trim(s) == TrimEnd(TrimStart(s))

\* The number of digits s begins with.
RECURSIVE DigitRun(_)
DigitRun(s) ==
    IF s # <<>> /\ Head(s) \in Digits THEN 1 + DigitRun(Tail(s)) ELSE 0

\* The value of a sequence of digits read in base 10, continuing from acc.
RECURSIVE DigitsValue(_, _)
DigitsValue(s, acc) ==
    IF s = <<>> THEN acc ELSE DigitsValue(Tail(s), 10 * acc + DigitVal(Head(s)))

StartsWith(s, p) == Len(s) >= Len(p) /\ SubSeq(s, 1, Len(p)) = p

InfinityText == <<"I", "n", "f", "i", "n", "i", "t", "y">>

\* The global parseFloat: leading white space is skipped, then the longest
\* prefix that is a StrDecimalLiteral is converted (a sign, then Infinity or
\* digits with an optional fraction); NaN when there is no such prefix.
\* The ExponentPart is left out: no text of the model has a digit followed
\* by e or E.
parseFloat(value) ==
    LET s0   == TrimStart(value)
        neg  == s0 # <<>> /\ Head(s0) = "-"
        s1   == IF s0 # <<>> /\ Head(s0) \in {"-", "+"} THEN Tail(s0) ELSE s0
        sg   == IF neg THEN 0 - 1 ELSE 1
        ni   == DigitRun(s1)
        rest == SubSeq(s1, ni + 1, Len(s1))
        dot  == rest # <<>> /\ Head(rest) = "."
        nf   == IF dot THEN DigitRun(Tail(rest)) ELSE 0
        ds   == SubSeq(s1, 1, ni) \o (IF dot THEN SubSeq(rest, 2, nf + 1) ELSE <<>>)
    IN  IF StartsWith(s1, InfinityText) THEN Inf(sg)
        ELSE IF ni + nf = 0 THEN NaN
        ELSE Norm(sg * DigitsValue(ds, 0), 1, 0 - nf)

-----------------------------------------------------------------------------
(* The component                                                           *)

NumericFields == {"token1Price", "token2Price", "totalLiquidity", "upperBound", "lowerBound"}

SymbolFields == {"token1Symbol", "token2Symbol"}

Fields == NumericFields \cup SymbolFields

\* useState<InputState>({...})
InitialInputs ==
    [token1Price    |-> <<"0", ".", "7", "1", "1", "0">>,
     token2Price    |-> <<"2", "5", "0", "0">>,
     totalLiquidity |-> <<"1", "0", "0", "0", "0">>,
     upperBound     |-> <<"4", ".", "4", "4">>,
     lowerBound     |-> <<"4", ".", "4", "4">>,
     token1Symbol   |-> <<"S">>,
     token2Symbol   |-> <<"W", "E", "T", "H">>]

\* The values e.target.value takes in the model.  In a price, liquidity or
\* bound field: texts that are empty, non-numeric, zero, negative, infinite,
\* a positive number, and a number between white space and letters.
NumberTexts ==
    {<<>>, <<"a", "b", "c">>, <<"0">>, <<"-", "5">>, InfinityText,
     <<"2", "5", "0", "0">>, <<" ", "8", "a", "b", "c">>}

\* In a symbol field: texts that are empty, blank, a word, and a word
\* between white space.
SymbolTexts ==
    {<<>>, <<" ">>, <<"a", "b", "c">>, <<" ", "S", " ">>}

Texts(f) == IF f \in SymbolFields THEN SymbolTexts ELSE NumberTexts

\* What the component shows: nothing, the results panel, the error panel.
Shown(r, m) ==
    [results |-> r # NULL, error |-> m # ""]

\* A thrown Error, and a normal return of the try block.
Thrown(m) == [threw |-> TRUE, msg |-> m, val |-> NaN, results |-> NULL]

Returned(v) == [threw |-> FALSE, msg |-> "", val |-> v, results |-> NULL]

parseNumericInput(value, fieldName) ==
    LET parsed == parseFloat(value) IN
    IF IsNaN(parsed)
    THEN Thrown("Invalid " \o fieldName \o ": must be a number")
    ELSE IF LeqZero(parsed) /\ fieldName # "upperBound" /\ fieldName # "lowerBound"
    THEN Thrown(fieldName \o " must be a positive number")
    ELSE Returned(parsed)

\* Mutant of calculatePositions: the total is not halved.
calculatePositions_NoSplit(token1PriceUSD, token2PriceUSD, totalValue) ==
    LET valuePerSide == totalValue
        token1Amount == Div(valuePerSide, token1PriceUSD)
        token2Amount == Div(valuePerSide, token2PriceUSD)
    IN  [token1Amount   |-> token1Amount,
         token2Amount   |-> token2Amount,
         token1ValueUSD |-> Mul(token1Amount, token1PriceUSD),
         token2ValueUSD |-> Mul(token2Amount, token2PriceUSD),
         token1Hedge    |-> Div(token1Amount, Num(2)),
         token2Hedge    |-> Div(token2Amount, Num(2)),
         pairPrice      |-> Div(token1PriceUSD, token2PriceUSD)]

calculatePositions(token1PriceUSD, token2PriceUSD, totalValue) ==
    LET valuePerSide == Div(totalValue, Num(2))
        token1Amount == Div(valuePerSide, token1PriceUSD)
        token2Amount == Div(valuePerSide, token2PriceUSD)
        token1Hedge  == Div(token1Amount, Num(2))
        token2Hedge  == Div(token2Amount, Num(2))
    IN  [token1Amount   |-> token1Amount,
         token2Amount   |-> token2Amount,
         token1ValueUSD |-> Mul(token1Amount, token1PriceUSD),
         token2ValueUSD |-> Mul(token2Amount, token2PriceUSD),
         token1Hedge    |-> token1Hedge,
         token2Hedge    |-> token2Hedge,
         pairPrice      |-> Div(token1PriceUSD, token2PriceUSD)]

\* Mutant of ResultsOf: the lower edge is taken above the pair price.
ResultsOf_LowerAdds(positions, upperPct, lowerPct) ==
    LET pairPrice == positions.pairPrice IN
    [token1Amount   |-> positions.token1Amount,
     token2Amount   |-> positions.token2Amount,
     token1ValueUSD |-> positions.token1ValueUSD,
     token2ValueUSD |-> positions.token2ValueUSD,
     token1Hedge    |-> positions.token1Hedge,
     token2Hedge    |-> positions.token2Hedge,
     pairPrice      |-> positions.pairPrice,
     priceRange     |->
        [lower   |-> Mul(pairPrice, Add(Num(1), Div(lowerPct, Num(100)))),
         current |-> pairPrice,
         upper   |-> Mul(pairPrice, Add(Num(1), Div(upperPct, Num(100))))]]

\* The object handed to setResults: {...positions, priceRange: {...}}.
ResultsOf(positions, upperPct, lowerPct) ==
    LET pairPrice == positions.pairPrice IN
    [token1Amount   |-> positions.token1Amount,
     token2Amount   |-> positions.token2Amount,
     token1ValueUSD |-> positions.token1ValueUSD,
     token2ValueUSD |-> positions.token2ValueUSD,
     token1Hedge    |-> positions.token1Hedge,
     token2Hedge    |-> positions.token2Hedge,
     pairPrice      |-> positions.pairPrice,
     priceRange     |->
        [lower   |-> Mul(pairPrice, Sub(Num(1), Div(lowerPct, Num(100)))),
         current |-> pairPrice,
         upper   |-> Mul(pairPrice, Add(Num(1), Div(upperPct, Num(100))))]]

\* Mutant of TryBlock: the symbols are validated before the numbers.
TryBlock_SymbolsFirst(inp) ==
    LET token1PriceUSD == parseNumericInput(inp.token1Price, "Token 1 Price")
        token2PriceUSD == parseNumericInput(inp.token2Price, "Token 2 Price")
        totalValue     == parseNumericInput(inp.totalLiquidity, "Total Liquidity")
        upperPct       == parseNumericInput(inp.upperBound, "Upper Bound")
        lowerPct       == parseNumericInput(inp.lowerBound, "Lower Bound")
    IN  IF trim(inp.token1Symbol) = <<>>
        THEN Thrown("Token 1 Symbol cannot be empty")
        ELSE IF trim(inp.token2Symbol) = <<>>
        THEN Thrown("Token 2 Symbol cannot be empty")
        ELSE IF token1PriceUSD.threw THEN token1PriceUSD
        ELSE IF token2PriceUSD.threw THEN token2PriceUSD
        ELSE IF totalValue.threw THEN totalValue
        ELSE IF upperPct.threw THEN upperPct
        ELSE IF lowerPct.threw THEN lowerPct
        ELSE [threw |-> FALSE, msg |-> "", val |-> NaN,
              results |-> ResultsOf(
                  calculatePositions(token1PriceUSD.val, token2PriceUSD.val,
                                     totalValue.val),
                  upperPct.val, lowerPct.val)]

\* The try block of handleCalculate, up to the argument of setResults: the
\* first statement that throws ends it.
TryBlock(inp) ==
    LET token1PriceUSD == parseNumericInput(inp.token1Price, "Token 1 Price")
        token2PriceUSD == parseNumericInput(inp.token2Price, "Token 2 Price")
        totalValue     == parseNumericInput(inp.totalLiquidity, "Total Liquidity")
        upperPct       == parseNumericInput(inp.upperBound, "Upper Bound")
        lowerPct       == parseNumericInput(inp.lowerBound, "Lower Bound")
    IN  IF token1PriceUSD.threw THEN token1PriceUSD
        ELSE IF token2PriceUSD.threw THEN token2PriceUSD
        ELSE IF totalValue.threw THEN totalValue
        ELSE IF upperPct.threw THEN upperPct
        ELSE IF lowerPct.threw THEN lowerPct
        ELSE IF trim(inp.token1Symbol) = <<>>
        THEN Thrown("Token 1 Symbol cannot be empty")
        ELSE IF trim(inp.token2Symbol) = <<>>
        THEN Thrown("Token 2 Symbol cannot be empty")
        ELSE [threw |-> FALSE, msg |-> "", val |-> NaN,
              results |-> ResultsOf(
                  calculatePositions(token1PriceUSD.val, token2PriceUSD.val,
                                     totalValue.val),
                  upperPct.val, lowerPct.val)]

\* Mutant of StoreResults: setError('') is missing.
StoreResults_KeepsError(r) ==
    /\ results' = r
    /\ error' = error

\* Mutant of StoreResults: a partial update that keeps the price range of
\* the result already stored.
StoreResults_Partial(r) ==
    /\ results' = IF results = NULL THEN r
                  ELSE [r EXCEPT !.priceRange = results.priceRange]
    /\ error' = ""

\* setResults({...}); setError('')
StoreResults(r) ==
    /\ results' = r
    /\ error' = ""

\* Mutant of CatchBlock: setResults(null) is missing.
CatchBlock_KeepsResults(m) ==
    /\ error' = m
    /\ results' = results

\* catch (err) { setError(err.message); setResults(null) }
CatchBlock(m) ==
    /\ error' = m
    /\ results' = NULL

\* Mutant of SetField: an edit also clears what is shown.
SetField_ClearsOutput(f, v) ==
    /\ inputs' = [inputs EXCEPT ![f] = v]
    /\ results' = NULL
    /\ error' = ""

\* onChange={(e) => setInputs(prev => ({ ...prev, [f]: e.target.value }))}
SetField(f, v) ==
    /\ inputs' = [inputs EXCEPT ![f] = v]
    /\ UNCHANGED <<results, error>>

TypeOK ==
    /\ \A f \in Fields : inputs[f] \in Texts(f) \cup {InitialInputs[f]}
    /\ error \in STRING
    /\ op \in {"init", "calc"} \cup Fields
    /\ edits \in 0..MaxEdits

Init ==
    /\ inputs = InitialInputs
    /\ results = NULL
    /\ error = ""
    /\ op = "init"
    /\ edits = 0
    /\ snapshot = InitialInputs
    /\ shownBefore = Shown(NULL, "")

\* One change event on field f.  History: op is the last event, edits counts
\* the change events, snapshot is `inputs` at the last click on Calculate and
\* shownBefore is what was shown just before that click.
Edit(f) ==
    /\ edits < MaxEdits
    /\ \E v \in Texts(f) : SetField(f, v)
    /\ op' = f
    /\ edits' = edits + 1
    /\ UNCHANGED <<snapshot, shownBefore>>

onChangeToken1Symbol == Edit("token1Symbol")

onChangeToken2Symbol == Edit("token2Symbol")

onChangeToken1Price == Edit("token1Price")

onChangeToken2Price == Edit("token2Price")

onChangeTotalLiquidity == Edit("totalLiquidity")

onChangeUpperBound == Edit("upperBound")

onChangeLowerBound == Edit("lowerBound")

\* A click on Calculate.
handleCalculate ==
    /\ LET t == TryBlock(inputs) IN
       IF t.threw THEN CatchBlock(t.msg) ELSE StoreResults(t.results)
    /\ op' = "calc"
    /\ snapshot' = inputs
    /\ shownBefore' = Shown(results, error)
    /\ UNCHANGED <<inputs, edits>>

Next ==
    \/ onChangeToken1Symbol
    \/ onChangeToken2Symbol
    \/ onChangeToken1Price
    \/ onChangeToken2Price
    \/ onChangeTotalLiquidity
    \/ onChangeUpperBound
    \/ onChangeLowerBound
    \/ handleCalculate

Spec == Init /\ [][Next]_vars

-----------------------------------------------------------------------------
(* Vocabulary of the properties                                            *)

\* The label handleCalculate gives a numeric field in its messages.
Label(f) ==
    CASE f = "token1Price"    -> "Token 1 Price"
      [] f = "token2Price"    -> "Token 2 Price"
      [] f = "totalLiquidity" -> "Total Liquidity"
      [] f = "upperBound"     -> "Upper Bound"
      [] f = "lowerBound"     -> "Lower Bound"

\* The two messages that name numeric field f.
NotANumber(f) == "Invalid " \o Label(f) \o ": must be a number"

NotPositive(f) == Label(f) \o " must be a positive number"

\* x is a finite number.
IsFinite(x) == x.k = "fin"

\* x > 0 and x < 0 as JavaScript compares: false when x is NaN.
GtZero(x) == x.k # "nan" /\ x.n > 0

LtZero(x) == x.k # "nan" /\ x.n < 0

RECURSIVE Pow5(_)
Pow5(k) == IF k <= 0 THEN 1 ELSE 5 * Pow5(k - 1)

\* x is a finite value that a double holds exactly: a dyadic rational, that
\* is n * 10^e with e >= 0 or n a multiple of 5^(-e) (the magnitudes of the
\* model are far below 2^53).
IsExact(x) ==
    /\ x.k = "fin"
    /\ x.d = 1
    /\ (x.e >= 0 \/ x.n % Pow5(0 - x.e) = 0)

\* Text s is empty or holds white space only.
Blank(s) == \A i \in 1..Len(s) : s[i] \in WhiteSpace

\* Text s parses to a finite number strictly greater than zero.
FinitePositive(s) == IsFinite(parseFloat(s)) /\ GtZero(parseFloat(s))

\* The last event was a click on Calculate (so snapshot = inputs).
Clicked == op = "calc"

-----------------------------------------------------------------------------
(* Properties                                                              *)

\* C1: in every reachable state the result and the error are never both
\* present: results non-null implies error empty, and error non-empty
\* implies results null.
C1_ResultsErrorExclusive ==
    /\ results # NULL => error = ""
    /\ error # "" => results = NULL

\* C1 witness: a successful Calculate right after an error was shown.
C1_Witness ==
    Clicked /\ shownBefore.error /\ results # NULL /\ error = ""

\* C2: right after a Calculate trigger whose validation fails, results is
\* null and the error is the non-empty message thrown, whatever was shown
\* before the trigger.
C2_FailureClearsResults ==
    (Clicked /\ TryBlock(inputs).threw) =>
        /\ results = NULL
        /\ error # ""
        /\ error = TryBlock(inputs).msg

\* C2 witness: totalLiquidity is "abc" at the trigger and a result was shown
\* before it.
C2_Witness ==
    /\ Clicked
    /\ inputs.totalLiquidity = <<"a", "b", "c">>
    /\ shownBefore.results
    /\ results = NULL
    /\ error = "Invalid Total Liquidity: must be a number"

\* C3: whenever results is present, each of its ten fields is the value
\* computed from the inputs as they were at the last Calculate trigger
\* (snapshot), also after later edits and after earlier triggers.
C3_ResultsFromOneSnapshot ==
    results # NULL =>
        LET p1  == parseFloat(snapshot.token1Price)
            p2  == parseFloat(snapshot.token2Price)
            tv  == parseFloat(snapshot.totalLiquidity)
            up  == parseFloat(snapshot.upperBound)
            lo  == parseFloat(snapshot.lowerBound)
            a1  == Div(Div(tv, Num(2)), p1)
            a2  == Div(Div(tv, Num(2)), p2)
            pp  == Div(p1, p2)
        IN  /\ results.token1Amount = a1
            /\ results.token2Amount = a2
            /\ results.token1ValueUSD = Mul(a1, p1)
            /\ results.token2ValueUSD = Mul(a2, p2)
            /\ results.token1Hedge = Div(a1, Num(2))
            /\ results.token2Hedge = Div(a2, Num(2))
            /\ results.pairPrice = pp
            /\ results.priceRange.lower = Mul(pp, Sub(Num(1), Div(lo, Num(100))))
            /\ results.priceRange.current = pp
            /\ results.priceRange.upper = Mul(pp, Add(Num(1), Div(up, Num(100))))

\* C3 witness: a result stored by a second successful trigger, and the
\* inputs edited since.
C3_Witness ==
    /\ results # NULL
    /\ shownBefore.results
    /\ op \in Fields
    /\ inputs # snapshot
    /\ parseFloat(inputs.lowerBound) # parseFloat(snapshot.lowerBound)

\* C4: a change event on field f changes inputs[f] only: the six other
\* fields, results and error keep their values.
C4_EditFrame ==
    [][\A f \in Fields :
          (op' = f /\ edits' = edits + 1) =>
              /\ \A g \in Fields \ {f} : inputs'[g] = inputs[g]
              /\ results' = results
              /\ error' = error]_vars

\* C4 witness: a field was edited after a successful Calculate, and the
\* result of that trigger is still stored.
C4_Witness ==
    /\ op \in Fields
    /\ results # NULL
    /\ inputs[op] # snapshot[op]

\* The three fields the positivity requirement is stated for.
Required == {"token1Price", "token2Price", "totalLiquidity"}

\* C5 (as claimed): right after a Calculate trigger, a result is stored only
\* if token1Price, token2Price and totalLiquidity each parse to a finite
\* number greater than zero; if one of them does not, no result is stored
\* and the error is a message naming such a field.
C5_RequiredFinitePositive ==
    Clicked =>
        /\ results # NULL => \A f \in Required : FinitePositive(inputs[f])
        /\ (\E f \in Required : ~FinitePositive(inputs[f])) =>
               /\ results = NULL
               /\ \E f \in Required :
                      /\ ~FinitePositive(inputs[f])
                      /\ error \in {NotANumber(f), NotPositive(f)}

\* C6 (as claimed): right after a Calculate trigger in which upperBound or
\* lowerBound parses to zero or to a negative number, every other field
\* being valid, a result is stored and the error is empty.
C6_BoundsExemptFromPositivity ==
    (/\ Clicked
     /\ \A f \in Required : FinitePositive(inputs[f])
     /\ \A f \in {"upperBound", "lowerBound"} : IsFinite(parseFloat(inputs[f]))
     /\ \E f \in {"upperBound", "lowerBound"} : LeqZero(parseFloat(inputs[f]))
     /\ \A f \in SymbolFields : ~Blank(inputs[f]))
    => (results # NULL /\ error = "")

\* C7: right after a Calculate trigger, a blank token1Symbol or token2Symbol
\* leaves a non-empty error and no result, and when the five numeric fields
\* pass their checks that error is the message of the first blank symbol; a
\* symbol with a non-white-space character never yields its message.
C7_BlankSymbolRejected ==
    Clicked =>
        LET blank1 == Blank(inputs.token1Symbol)
            blank2 == Blank(inputs.token2Symbol)
            numbersPass == \A f \in NumericFields : GtZero(parseFloat(inputs[f]))
        IN  /\ (blank1 \/ blank2) => (error # "" /\ results = NULL)
            /\ (numbersPass /\ blank1) => error = "Token 1 Symbol cannot be empty"
            /\ (numbersPass /\ ~blank1 /\ blank2) =>
                   error = "Token 2 Symbol cannot be empty"
            /\ ~blank1 => error # "Token 1 Symbol cannot be empty"
            /\ ~blank2 => error # "Token 2 Symbol cannot be empty"
            /\ (numbersPass /\ ~blank1 /\ ~blank2) => error = ""

\* C7 witness: token1Symbol is one space, the numeric fields are the valid
\* defaults, and the trigger stored the symbol's message.
C7_Witness ==
    /\ Clicked
    /\ inputs.token1Symbol = <<" ">>
    /\ \A f \in NumericFields : inputs[f] = InitialInputs[f]
    /\ results = NULL
    /\ error = "Token 1 Symbol cannot be empty"

\* C8: for a stored result whose prices and liquidity are finite, positive
\* and held exactly by a double, and whose two divisions are exact,
\* token1ValueUSD = token2ValueUSD = totalLiquidity / 2 and their sum is
\* totalLiquidity.
C8_ValuesSplitEvenly ==
    LET p1 == parseFloat(snapshot.token1Price)
        p2 == parseFloat(snapshot.token2Price)
        tv == parseFloat(snapshot.totalLiquidity)
    IN  (/\ results # NULL
         /\ IsExact(p1) /\ IsExact(p2) /\ IsExact(tv)
         /\ IsExact(Div(Div(tv, Num(2)), p1))
         /\ IsExact(Div(Div(tv, Num(2)), p2)))
        => /\ results.token1ValueUSD = Div(tv, Num(2))
           /\ results.token2ValueUSD = Div(tv, Num(2))
           /\ Add(results.token1ValueUSD, results.token2ValueUSD) = tv

\* C8 witness: a result stored for token1Price 8, token2Price 2500 and
\* totalLiquidity 10000 (amounts 625 and 2, both exact).
C8_Witness ==
    /\ Clicked
    /\ results # NULL
    /\ parseFloat(inputs.token1Price) = Num(8)
    /\ parseFloat(inputs.token2Price) = Num(2500)
    /\ parseFloat(inputs.totalLiquidity) = Num(10000)
    /\ results.token1Amount = Num(625)
    /\ results.token1ValueUSD = Num(5000)

\* C9: right after a Calculate trigger with lowerBound greater than 100, the
\* prices and the liquidity finite and positive, upperBound a finite
\* positive number and both symbols not blank, the error is empty and a
\* result is stored whose priceRange.lower is negative and whose
\* priceRange.current is pairPrice.
C9_NegativeLowerAccepted ==
    (/\ Clicked
     /\ GtZero(Sub(parseFloat(inputs.lowerBound), Num(100)))
     /\ \A f \in Required \cup {"upperBound"} : FinitePositive(inputs[f])
     /\ \A f \in SymbolFields : ~Blank(inputs[f]))
    => /\ error = ""
       /\ results # NULL
       /\ LtZero(results.priceRange.lower)
       /\ results.priceRange.current = results.pairPrice

\* C9 witness: lowerBound 2500 with the other defaults: lower is
\* 0.0002844 * (1 - 25) = -0.0068256.
C9_Witness ==
    /\ Clicked
    /\ inputs = [InitialInputs EXCEPT !.lowerBound = <<"2", "5", "0", "0">>]
    /\ error = ""
    /\ results # NULL
    /\ results.priceRange.lower = Norm(0 - 68256, 1, 0 - 7)

\* The order in which handleCalculate validates the fields.
Order ==
    <<"token1Price", "token2Price", "totalLiquidity", "upperBound",
      "lowerBound", "token1Symbol", "token2Symbol">>

\* The message of field f taken alone, "" when its check accepts the text: a
\* parse failure before a positivity failure.
FieldError(f, s) ==
    IF f \in NumericFields
    THEN IF IsNaN(parseFloat(s)) THEN NotANumber(f)
         ELSE IF LeqZero(parseFloat(s)) THEN NotPositive(f)
         ELSE ""
    ELSE IF ~Blank(s) THEN ""
         ELSE IF f = "token1Symbol" THEN "Token 1 Symbol cannot be empty"
         ELSE "Token 2 Symbol cannot be empty"

\* C10: right after a Calculate trigger the error is the message of the
\* first field, in the order token1Price, token2Price, totalLiquidity,
\* upperBound, lowerBound, token1Symbol, token2Symbol, whose check rejects
\* its text, and empty when no field is rejected.
C10_FirstInvalidFieldReported ==
    Clicked =>
        LET bad == {i \in 1..Len(Order) : FieldError(Order[i], inputs[Order[i]]) # ""}
        IN  IF bad = {} THEN error = ""
            ELSE \E i \in bad :
                    /\ \A j \in bad : i <= j
                    /\ error = FieldError(Order[i], inputs[Order[i]])

\* C10 witness: token2Price is not a number and token1Symbol is empty, and
\* the message stored is token2Price's.
C10_Witness ==
    /\ Clicked
    /\ IsNaN(parseFloat(inputs.token2Price))
    /\ Blank(inputs.token1Symbol)
    /\ error = "Invalid Token 2 Price: must be a number"

====
